---- MODULE Spec2Model ----
(***************************************************************************)
(* Model of satnogs_sstv_requester.py: the script parses a date range,     *)
(* fetches SSTV observations from the SatNOGS API, downloads every         *)
(* demodulated payload, scores it with the variance of its Laplacian and   *)
(* removes the files is_static_image reports as static.                    *)
(*                                                                         *)
(* A URL is the sequence of the "/"-separated segments after its host, a   *)
(* path the pair <<directory, name>>, a file's bytes [decodable, lapvar]   *)
(* (whether cv2.imread can decode them and, if so, the variance of the     *)
(* Laplacian of the decoded grid).  Python's None is <<>> for a path.      *)
(***************************************************************************)
EXTENDS Integers, Sequences, FiniteSets, TLC

VARIABLES pc, start_date_str, end_date_str, status_code, observations, obs_i,
          data_j, image_path, static, fs, stdout, net, exit_status

vars == <<pc, start_date_str, end_date_str, status_code, observations, obs_i,
          data_j, image_path, static, fs, stdout, net, exit_status>>

\* ------------------------------------------------------------------ bounds
\* Most observations in one API response.
MaxObs == 2
\* Most payloads in one API response, over all its observations.
MaxPayloads == 3

\* ------------------------------------------------------- program constants
API_URL == <<"api", "observations", "">>
save_dir == "satnogs_images"
threshold_default == 20000
HTTP_OK == 200

\* ------------------------------------------------------------ input sets
\* File names of payloads.  The API serves the payloads of observation id
\* under media/<id>/, so payloads of different observations may share their
\* final segment, and one observation may list a URL twice.
PayloadNames == {"a.png", "b.png"}

PayloadUrlsOf(id) == { <<"media", ToString(id), n>> : n \in PayloadNames }

\* Bytes a server may send: undecodable bytes, and images whose Laplacian
\* variance lies at and one above the default threshold.
Garbage == [decodable |-> FALSE, lapvar |-> 0]
Contents ==
    { Garbage,
      [decodable |-> TRUE, lapvar |-> threshold_default],
      [decodable |-> TRUE, lapvar |-> threshold_default + 1] }

\* Status codes of a response that arrives at all: of the observations
\* endpoint, of a payload URL.
ApiStatusCodes == {HTTP_OK, 404, 500}
ImageStatusCodes == {HTTP_OK, 404}

\* Thresholds is_static_image may be called with.
Thresholds == {-1, 0, threshold_default - 1, threshold_default, threshold_default + 1}

\* Date strings, as the fields between "-": two dates, a bad month, one field.
DateStrs == { <<2024, 10, 1>>, <<2024, 10, 17>>, <<2024, 13, 1>>, <<2024>> }

\* A response body of the observations endpoint: at most MaxObs observations
\* carrying at most MaxPayloads payloads in all.  An observation is a JSON
\* object with "id" and, possibly, "demoddata".
DemodEntries(id) == { [payload_demod |-> u] : u \in PayloadUrlsOf(id) }

\* The demoddata arrays of exactly n payloads of observation id.
DemodSeqs(n, id) == [1..n -> DemodEntries(id)]

\* The observations carrying exactly n payloads; with none, "demoddata" is
\* an empty array or is missing from the object.
ObsWith(n, id) ==
    { [id |-> id, demoddata |-> d] : d \in DemodSeqs(n, id) }
        \cup (IF n = 0 THEN { [id |-> id] } ELSE {})

\* The arrays of exactly n observations with at most m payloads in all,
\* the first observation having the given id.
RECURSIVE ObsListsOf(_, _, _)
ObsListsOf(n, m, id) ==
    IF n = 0 THEN { <<>> }
    ELSE UNION { { <<o>> \o rest : o \in ObsWith(k, id),
                                   rest \in ObsListsOf(n - 1, m - k, id + 1) } :
                 k \in 0..m }

ObsLists == UNION { ObsListsOf(n, MaxPayloads, 1) : n \in 0..MaxObs }

\* What requests.get can do: return a response with a status code and a
\* body, or raise (host unreachable) and return nothing.
ApiResponses ==
    { [raised |-> FALSE, status_code |-> HTTP_OK, json |-> l] : l \in ObsLists }
        \cup { [raised |-> FALSE, status_code |-> c, json |-> <<>>] :
                 c \in ApiStatusCodes \ {HTTP_OK} }
        \cup { [raised |-> TRUE, status_code |-> 0, json |-> <<>>] }

ImageResponses ==
    { [raised |-> FALSE, status_code |-> HTTP_OK, content |-> b] : b \in Contents }
        \cup { [raised |-> FALSE, status_code |-> c, content |-> Garbage] :
                 c \in ImageStatusCodes \ {HTTP_OK} }
        \cup { [raised |-> TRUE, status_code |-> 0, content |-> Garbage] }

\* ------------------------------------------------------------ filesystem
\* fs maps the paths that exist to their bytes.
NoFiles == [p \in {} |-> Garbage]

open_write(fsys, path, bytes) ==
    [q \in DOMAIN fsys \cup {path} |-> IF q = path THEN bytes ELSE fsys[q]]

\* A removal that empties the directory.
os_remove_all(fsys, path) == [q \in {} |-> fsys[q]]

os_remove(fsys, path) == [q \in DOMAIN fsys \ {path} |-> fsys[q]]

os_path_join(dir, name) == <<dir, name>>

\* ---------------------------------------------------------------- dates
DaysIn(y, m) ==
    IF m = 2 THEN (IF (y % 4 = 0 /\ y % 100 # 0) \/ y % 400 = 0 THEN 29 ELSE 28)
    ELSE IF m \in {4, 6, 9, 11} THEN 30 ELSE 31

\* datetime.strptime(s, "%Y-%m-%d") raises ValueError unless this holds.
strptime_ok(s) ==
    /\ Len(s) = 3
    /\ s[1] \in 1..9999
    /\ s[2] \in 1..12
    /\ s[3] \in 1..DaysIn(s[1], s[2])

isoformat(s) == <<s[1], s[2], s[3], 0, 0, 0>>

\* ------------------------------------------------------- download_image
\* A name taken from the directory above the file instead.
image_name_of_parent(image_url) == image_url[Len(image_url) - 1]

\* image_url.split("/")[-1]
image_name_of(image_url) == image_url[Len(image_url)]

\* download_image(image_url) given the response requests.get returned:
\* the filesystem afterwards, the value returned and the line printed.
download_image(fsys, image_url, response) ==
    LET save_path == os_path_join(save_dir, image_name_of(image_url)) IN
    IF response.status_code = HTTP_OK
    THEN [fs  |-> open_write(fsys, save_path, response.content),
          ret |-> save_path,
          out |-> <<"Downloaded image", save_path>>]
    ELSE [fs  |-> fsys,
          ret |-> <<>>,
          out |-> <<"Failed to download", image_url, response.status_code>>]

\* ------------------------------------------------------ is_static_image
\* cv2.imread: the decoded grid, or None (here Garbage) when the file is
\* missing or its bytes do not decode.
imread(fsys, path) ==
    IF path \in DOMAIN fsys /\ fsys[path].decodable THEN fsys[path] ELSE Garbage

img_is_None(img) == ~img.decodable

\* cv2.Laplacian(img, cv2.CV_64F).var()
laplacian_var(img) == img.lapvar

\* A classifier that lets an undecodable file through as content.
is_static_image_open(fsys, path, threshold) ==
    LET img == imread(fsys, path) IN
    IF img_is_None(img) THEN FALSE ELSE laplacian_var(img) > threshold

is_static_image(fsys, path, threshold) ==
    LET img == imread(fsys, path) IN
    IF img_is_None(img) THEN TRUE ELSE laplacian_var(img) > threshold

is_static_out(fsys, path) ==
    LET img == imread(fsys, path) IN
    IF img_is_None(img) THEN <<"Error loading image", path>>
    ELSE <<"Variance of Laplacian", path, laplacian_var(img)>>

\* A lookup whose default is a stale payload instead of the empty list.
obs_get_demoddata_stale(obs) ==
    IF "demoddata" \in DOMAIN obs THEN obs.demoddata
    ELSE << [payload_demod |-> <<"media", "0", "a.png">>] >>

\* obs.get("demoddata", [])
obs_get_demoddata(obs) ==
    IF "demoddata" \in DOMAIN obs THEN obs.demoddata ELSE <<>>

\* ---------------------------------------------------------------- state
\* exit_status while the process is running.
Running == -1

\* The run starts in an empty working directory.
Init ==
    /\ pc = "main"
    /\ start_date_str \in DateStrs \ {<<2024, 10, 17>>}
    /\ end_date_str \in DateStrs \ {<<2024, 10, 1>>, <<2024>>}
    /\ status_code = 0
    /\ observations = <<>>
    /\ obs_i = 1
    /\ data_j = 1
    /\ image_path = <<>>
    /\ static = FALSE
    /\ fs = NoFiles
    /\ stdout = <<>>
    /\ net = <<>>
    /\ exit_status = Running

dateVars == <<start_date_str, end_date_str>>
loopVars == <<status_code, observations, obs_i, data_j, image_path, static>>

\* __main__, the date strings parse: go on to get_sstv_images.
MainParse ==
    /\ pc = "main"
    /\ strptime_ok(start_date_str) /\ strptime_ok(end_date_str)
    /\ pc' = "fetch"
    /\ UNCHANGED <<loopVars, dateVars, fs, stdout, net, exit_status>>

\* __main__, strptime raises ValueError: print and exit(1).
MainBadDate ==
    /\ pc = "main"
    /\ ~(strptime_ok(start_date_str) /\ strptime_ok(end_date_str))
    /\ stdout' = Append(stdout, <<"Invalid date format">>)
    /\ exit_status' = 1
    /\ pc' = "exited"
    /\ UNCHANGED <<loopVars, dateVars, fs, net>>

station_id == 2433
satellite_id == 25544
limit == 10

query_params ==
    [norad_cat_id |-> satellite_id, ground_station |-> station_id,
     status |-> "good", limit |-> limit, transmitter_mode |-> "SSTV",
     start |-> isoformat(start_date_str), end |-> isoformat(end_date_str)]

\* The two nested for loops.  A loop position is the payload the body runs
\* on next, observations[obs_i]'s data_j-th, or "exited" once both loops are
\* exhausted: get_sstv_images returns and the script ends with status 0.
\* enter_obs starts the outer loop's iteration i, printing on the way.
RECURSIVE enter_obs(_, _, _)
enter_obs(obsv, i, out) ==
    IF i > Len(obsv)
    THEN [pc |-> "exited", obs_i |-> i, data_j |-> 1, out |-> out]
    ELSE LET printed == Append(out, <<"Processing observation", obsv[i]["id"]>>) IN
         IF Len(obs_get_demoddata(obsv[i])) >= 1
         THEN [pc |-> "data", obs_i |-> i, data_j |-> 1, out |-> printed]
         ELSE enter_obs(obsv, i + 1, printed)

\* The inner loop's next iteration after the body ran on payload j of
\* observation i.
next_data(obsv, i, j) ==
    IF j + 1 <= Len(obs_get_demoddata(obsv[i]))
    THEN [pc |-> "data", obs_i |-> i, data_j |-> j + 1, out |-> <<>>]
    ELSE enter_obs(obsv, i + 1, <<>>)

exit_of(p) == IF p = "exited" THEN 0 ELSE Running

\* A status check that takes only 404 for a failure.
on_api_response_lenient(response) ==
    IF response.status_code = 404
    THEN [pc |-> "exited", obs_i |-> 1, data_j |-> 1, observations |-> <<>>,
          out |-> << <<"Failed to retrieve observations", response.status_code>> >>]
    ELSE LET l == enter_obs(response.json, 1, <<>>) IN
         [pc |-> l.pc, obs_i |-> l.obs_i, data_j |-> l.data_j,
          observations |-> response.json, out |-> l.out]

\* What get_sstv_images does with the response to its one API request:
\* fail and return, or parse the body and enter the loops.
on_api_response(response) ==
    IF response.status_code # HTTP_OK
    THEN [pc |-> "exited", obs_i |-> 1, data_j |-> 1, observations |-> <<>>,
          out |-> << <<"Failed to retrieve observations", response.status_code>> >>]
    ELSE LET l == enter_obs(response.json, 1, <<>>) IN
         [pc |-> l.pc, obs_i |-> l.obs_i, data_j |-> l.data_j,
          observations |-> response.json, out |-> l.out]

\* get_sstv_images up to the first payload: requests.get(API_URL, params)
\* answers.
FetchObservations ==
    /\ pc = "fetch"
    /\ \E response \in { r \in ApiResponses : ~r.raised } :
         LET r == on_api_response(response) IN
         /\ net' = Append(net, <<API_URL, query_params>>)
         /\ status_code' = response.status_code
         /\ pc' = r.pc
         /\ observations' = r.observations
         /\ obs_i' = r.obs_i
         /\ data_j' = r.data_j
         /\ stdout' = stdout \o r.out
         /\ exit_status' = exit_of(r.pc)
    /\ UNCHANGED <<image_path, static, dateVars, fs>>

\* requests.get(API_URL, ...) raises: nothing catches it, the interpreter
\* prints the traceback and exits with status 1.
FetchRaises ==
    /\ pc = "fetch"
    /\ \E response \in { r \in ApiResponses : r.raised } :
         net' = Append(net, <<API_URL, query_params>>)
    /\ exit_status' = 1
    /\ pc' = "exited"
    /\ UNCHANGED <<loopVars, dateVars, fs, stdout>>

\* The payloads of an observation taken from the last to the first.
current_url_reversed ==
    LET d == obs_get_demoddata(observations[obs_i]) IN
    d[Len(d) - data_j + 1]["payload_demod"]

\* data["payload_demod"] of the payload the loop body runs on.
current_url == obs_get_demoddata(observations[obs_i])[data_j]["payload_demod"]

\* A failed download that ends the loops.
after_download_abort(obsv, i, j, ret) ==
    IF ret # <<>>
    THEN [pc |-> "analyze", obs_i |-> i, data_j |-> j, out |-> <<>>]
    ELSE [pc |-> "exited", obs_i |-> i, data_j |-> j, out |-> <<>>]

\* A successful download that is never analysed.
after_download_skip(obsv, i, j, ret) == next_data(obsv, i, j)

\* Where the loop body goes after download_image returned ret: on to
\* is_static_image, or straight to the next payload.
after_download(obsv, i, j, ret) ==
    IF ret # <<>>
    THEN [pc |-> "analyze", obs_i |-> i, data_j |-> j, out |-> <<>>]
    ELSE next_data(obsv, i, j)

\* image_path = download_image(data["payload_demod"]); if image_path: ...
Download ==
    /\ pc = "data"
    /\ \E response \in { r \in ImageResponses : ~r.raised } :
         LET d == download_image(fs, current_url, response)
             l == after_download(observations, obs_i, data_j, d.ret) IN
         /\ net' = Append(net, <<current_url>>)
         /\ status_code' = response.status_code
         /\ fs' = d.fs
         /\ image_path' = d.ret
         /\ stdout' = Append(stdout, d.out) \o l.out
         /\ pc' = l.pc
         /\ obs_i' = l.obs_i
         /\ data_j' = l.data_j
         /\ exit_status' = exit_of(l.pc)
    /\ UNCHANGED <<observations, static, dateVars>>

\* requests.get(image_url) raises: uncaught, the process exits with status 1.
DownloadRaises ==
    /\ pc = "data"
    /\ \E response \in { r \in ImageResponses : r.raised } :
         net' = Append(net, <<current_url>>)
    /\ exit_status' = 1
    /\ pc' = "exited"
    /\ UNCHANGED <<loopVars, dateVars, fs, stdout>>

\* The two branches on is_static_image's result: the filesystem afterwards
\* and the line printed.
curate(fsys, path, is_static) ==
    IF is_static
    THEN [fs |-> os_remove(fsys, path), out |-> <<"appears to be static", path>>]
    ELSE [fs |-> fsys, out |-> <<"contains content", path>>]

\* if is_static_image(image_path):
Analyze ==
    /\ pc = "analyze"
    /\ static' = is_static_image(fs, image_path, threshold_default)
    /\ stdout' = Append(stdout, is_static_out(fs, image_path))
    /\ pc' = "curate"
    /\ UNCHANGED <<status_code, observations, obs_i, data_j, image_path,
                   dateVars, fs, net, exit_status>>

\* ... print, os.remove(image_path) / else: print; then the next payload.
Curate ==
    /\ pc = "curate"
    /\ LET c == curate(fs, image_path, static)
           l == next_data(observations, obs_i, data_j) IN
         /\ fs' = c.fs
         /\ stdout' = Append(stdout, c.out) \o l.out
         /\ pc' = l.pc
         /\ obs_i' = l.obs_i
         /\ data_j' = l.data_j
         /\ exit_status' = exit_of(l.pc)
    /\ UNCHANGED <<status_code, observations, image_path, static, dateVars, net>>

Next ==
    \/ MainParse
    \/ MainBadDate
    \/ FetchObservations
    \/ FetchRaises
    \/ Download
    \/ DownloadRaises
    \/ Analyze
    \/ Curate

Spec == Init /\ [][Next]_vars

\* ------------------------------------------------------- reading the log
ClassifyLines == {"Error loading image", "Variance of Laplacian"}
VerdictLines == {"appears to be static", "contains content"}
DownloadLines == {"Downloaded image", "Failed to download"}

LinesOf(kinds) == { k \in DOMAIN stdout : stdout[k][1] \in kinds }
Count(kinds) == Cardinality(LinesOf(kinds))

\* ------------------------------------------------------------------- C1
\* C1: a decoded image with Laplacian variance v is classified STATIC iff
\* v <= threshold and CONTENT iff v > threshold, for the default threshold
\* the pipeline uses and for every threshold is_static_image can be given.
C1Claim ==
    (pc = "curate" /\ ~img_is_None(imread(fs, image_path))) =>
        LET v == laplacian_var(imread(fs, image_path)) IN
        /\ static <=> (v <= threshold_default)
        /\ \A t \in Thresholds : is_static_image(fs, image_path, t) <=> (v <= t)

\* ------------------------------------------------------------------- C2
\* C2: the step that disposes of a classified image leaves its file in place
\* iff the verdict was CONTENT (not static), removes it iff the verdict was
\* STATIC, reports that verdict, and changes no other file.
C2Thm ==
    [][ pc = "curate" =>
          /\ (image_path \in DOMAIN fs') <=> ~static
          /\ image_path \in DOMAIN fs' => fs'[image_path] = fs[image_path]
          /\ \A q \in (DOMAIN fs \cup DOMAIN fs') \ {image_path} :
                q \in DOMAIN fs /\ q \in DOMAIN fs' /\ fs'[q] = fs[q]
          /\ stdout'[Len(stdout) + 1] =
                <<(IF static THEN "appears to be static" ELSE "contains content"),
                  image_path>> ]_vars

\* A static image has just been removed while another file stays on disk.
C2Witness ==
    /\ pc = "data"
    /\ image_path # <<>>
    /\ static
    /\ image_path \notin DOMAIN fs
    /\ DOMAIN fs # {}
    /\ \E k \in DOMAIN stdout : stdout[k] = <<"appears to be static", image_path>>

\* ------------------------------------------------------------------- C3
\* C3: a downloaded file that does not decode is classified STATIC, whatever
\* the threshold (0 and negative ones included), and the disposal step
\* removes it.
C3Thm ==
    /\ [](pc = "curate" /\ img_is_None(imread(fs, image_path)) =>
            /\ static
            /\ \A t \in Thresholds : is_static_image(fs, image_path, t))
    /\ [][ pc = "curate" /\ img_is_None(imread(fs, image_path)) =>
            /\ image_path \notin DOMAIN fs'
            /\ stdout'[Len(stdout) + 1] = <<"appears to be static", image_path>> ]_vars

\* An undecodable download was reported, judged static and is gone.
C3Witness ==
    /\ pc \in {"data", "exited"}
    /\ image_path # <<>>
    /\ image_path \notin DOMAIN fs
    /\ \E k \in DOMAIN stdout :
          /\ stdout[k] = <<"Error loading image", image_path>>
          /\ k + 1 \in DOMAIN stdout
          /\ stdout[k + 1] = <<"appears to be static", image_path>>

\* ------------------------------------------------- reading the response
\* The payload URLs of a response body, in the order received.
RECURSIVE Flatten(_)
Flatten(obsv) ==
    IF Len(obsv) = 0 THEN <<>>
    ELSE (IF "demoddata" \in DOMAIN Head(obsv)
          THEN [k \in DOMAIN Head(obsv).demoddata |->
                    Head(obsv).demoddata[k].payload_demod]
          ELSE <<>>) \o Flatten(Tail(obsv))

CountIn(log, kinds) == Cardinality({ k \in DOMAIN log : log[k][1] \in kinds })

\* ------------------------------------------------------------------- C4
\* C4: a payload request answered with a non-success status prints the
\* failure, writes and removes no file, classifies nothing, and the loop
\* goes on with the next payload if there is one (the run ends normally
\* otherwise); no payload is requested twice, and between payloads the
\* number of classifications equals the number of successful downloads.
C4Thm ==
    /\ [][ (pc = "data" /\ exit_status' # 1
              /\ status_code' \in ImageStatusCodes \ {HTTP_OK}) =>
            /\ stdout'[Len(stdout) + 1] =
                  <<"Failed to download", Flatten(observations)[Len(net)], status_code'>>
            /\ fs' = fs
            /\ image_path' = <<>>
            /\ CountIn(stdout', ClassifyLines \cup VerdictLines)
                  = CountIn(stdout, ClassifyLines \cup VerdictLines)
            /\ Len(net) < Len(Flatten(observations)) => pc' = "data"
            /\ Len(net) = Len(Flatten(observations)) =>
                  pc' = "exited" /\ exit_status' = 0 ]_vars
    /\ [](pc \in {"data", "exited"} =>
            Count(ClassifyLines) = Count({"Downloaded image"}))
    /\ [](exit_status = 0 /\ status_code \in ImageStatusCodes /\ Len(net) >= 1 =>
            /\ Len(net) = 1 + Len(Flatten(observations))
            /\ Count(DownloadLines) = Len(Flatten(observations)))

\* Three payloads, the second answered 404: two classifications, one failure
\* reported, and the third payload downloaded after it.
C4Witness ==
    /\ exit_status = 0
    /\ Len(Flatten(observations)) = 3
    /\ Count({"Failed to download"}) = 1
    /\ Count(ClassifyLines) = 2
    /\ \E k \in DOMAIN stdout :
          /\ stdout[k] = <<"Failed to download", Flatten(observations)[2], 404>>
          /\ \E m \in DOMAIN stdout : m > k /\ stdout[m][1] = "Downloaded image"

\* ------------------------------------------------------------------- C5
\* C5: when a run completes, every "Downloaded image" is followed at once by
\* one classification and one verdict (removed or retained) of that same
\* file, and there is no classification or verdict besides these.
C5Thm ==
    exit_status = 0 =>
        /\ \A k \in LinesOf({"Downloaded image"}) :
              /\ k + 2 <= Len(stdout)
              /\ stdout[k + 1][1] \in ClassifyLines
              /\ stdout[k + 1][2] = stdout[k][2]
              /\ stdout[k + 2][1] \in VerdictLines
              /\ stdout[k + 2][2] = stdout[k][2]
        /\ \A k \in LinesOf(ClassifyLines) :
              k > 1 /\ stdout[k - 1][1] = "Downloaded image"
        /\ \A k \in LinesOf(VerdictLines) :
              k > 1 /\ stdout[k - 1][1] \in ClassifyLines
        /\ Count({"Downloaded image"}) =
              Len(net) - 1 - Count({"Failed to download"})

\* A completed run that downloaded three images, removing one and keeping one.
C5Witness ==
    /\ exit_status = 0
    /\ Count({"Downloaded image"}) = 3
    /\ Count({"appears to be static"}) >= 1
    /\ Count({"contains content"}) >= 1

\* ------------------------------------------------------------------- C6
\* C6: a non-200 answer of the observations endpoint is reported, the run
\* ends there with status 0 after that one request, with no download, no
\* classification and no change of the filesystem, and nothing follows.
C6Thm ==
    /\ [][ (pc = "fetch" /\ status_code' \in ApiStatusCodes \ {HTTP_OK}) =>
            /\ net' = << <<API_URL, query_params>> >>
            /\ stdout' = Append(stdout, <<"Failed to retrieve observations", status_code'>>)
            /\ fs' = fs
            /\ CountIn(stdout', DownloadLines \cup ClassifyLines \cup VerdictLines) = 0
            /\ pc' = "exited"
            /\ exit_status' = 0 ]_vars
    /\ [][ pc # "exited" ]_vars

\* The endpoint answered 500: one request, the failure line, an empty
\* directory, the run over.
C6Witness ==
    /\ pc = "exited"
    /\ exit_status = 0
    /\ status_code = 500
    /\ Len(net) = 1
    /\ stdout = << <<"Failed to retrieve observations", 500>> >>
    /\ fs = NoFiles

\* ------------------------------------------------------------------- C7
\* C7: observations without payloads (demoddata empty or missing) cause no
\* request: a 200 response that lists no payload at all ends the run with
\* status 0 after the one API request, nothing downloaded, classified or
\* removed; and no run requests more payloads than the response lists.
C7Thm ==
    /\ Len(net) <= 1 + Len(Flatten(observations))
    /\ (/\ Len(net) >= 1
        /\ Len(net) = 1 => status_code = HTTP_OK
        /\ Len(Flatten(observations)) = 0) =>
          /\ pc = "exited"
          /\ exit_status = 0
          /\ Len(net) = 1
          /\ fs = NoFiles
          /\ Count(DownloadLines \cup ClassifyLines \cup VerdictLines) = 0
          /\ Count({"Processing observation"}) = Len(observations)

\* A response of two observations, one without "demoddata" and one with an
\* empty one, processed to a normal end.
C7Witness ==
    /\ exit_status = 0
    /\ status_code = HTTP_OK
    /\ Len(observations) = 2
    /\ "demoddata" \notin DOMAIN observations[1]
    /\ "demoddata" \in DOMAIN observations[2]
    /\ Len(net) = 1
    /\ Len(stdout) = 2

\* ------------------------------------------------------------------- C8
\* C8: the process ends with a non-zero status only when the date range does
\* not parse, and then before any network request.
C8Claim ==
    exit_status \notin {Running, 0} =>
        /\ ~(strptime_ok(start_date_str) /\ strptime_ok(end_date_str))
        /\ net = <<>>

\* ------------------------------------------------------------------- C9
\* C9: payloads are requested in the order received, each once; a download
\* is followed by the classification and then the verdict of that file
\* before anything else about a payload is printed, and whenever the next
\* payload is about to be requested every downloaded file has its verdict.
C9Thm ==
    /\ Len(net) <= 1 + Len(Flatten(observations))
    /\ \A k \in 2..Len(net) : net[k][1] = Flatten(observations)[k - 1]
    /\ \A k \in LinesOf({"Downloaded image"}) :
          /\ k = Len(stdout) => pc = "analyze"
          /\ k + 1 = Len(stdout) => pc = "curate"
          /\ k + 1 <= Len(stdout) =>
                stdout[k + 1][1] \in ClassifyLines /\ stdout[k + 1][2] = stdout[k][2]
          /\ k + 2 <= Len(stdout) =>
                stdout[k + 2][1] \in VerdictLines /\ stdout[k + 2][2] = stdout[k][2]
    /\ pc = "data" =>
          /\ Count(VerdictLines) = Count({"Downloaded image"})
          /\ Count(DownloadLines) = Len(net) - 1
          /\ Flatten(observations)[Len(net)] = current_url

\* A completed run over two observations, the first with two different
\* payloads, all three requested.
C9Witness ==
    /\ exit_status = 0
    /\ Len(observations) = 2
    /\ Len(net) = 4
    /\ net[2][1] # net[3][1]
    /\ net[2][1][2] = net[3][1][2]
    /\ net[4][1][2] # net[3][1][2]
    /\ Count({"Downloaded image"}) = 3

\* ------------------------------------------------------------------ C10
\* The lines of stdout that report a payload's download, in order: the k-th
\* belongs to the k-th payload request, net[k + 1].
PayloadLines ==
    SelectSeq([k \in 1..Len(stdout) |-> k],
              LAMBDA k : stdout[k][1] \in DownloadLines)

\* The payload requests that were saved and whose URL ends in name n.
SavedAs(n) ==
    { k \in 1..Len(PayloadLines) :
        /\ stdout[PayloadLines[k]][1] = "Downloaded image"
        /\ net[k + 1][1][Len(net[k + 1][1])] = n }

LastSavedAs(n) == CHOOSE k \in SavedAs(n) : \A m \in SavedAs(n) : m <= k

\* C10: at the end of a completed run that started in an empty directory,
\* the file named n exists iff the last saved payload whose URL ends in n
\* got the verdict CONTENT, its bytes are those of that download, and no
\* other file exists.
C10Thm ==
    exit_status = 0 =>
        /\ DOMAIN fs \subseteq { os_path_join(save_dir, n) : n \in PayloadNames }
        /\ \A n \in PayloadNames :
              LET path == os_path_join(save_dir, n) IN
              /\ path \in DOMAIN fs <=>
                    /\ SavedAs(n) # {}
                    /\ stdout[PayloadLines[LastSavedAs(n)] + 2]
                          = <<"contains content", path>>
              /\ path \in DOMAIN fs =>
                    stdout[PayloadLines[LastSavedAs(n)] + 1]
                        = <<"Variance of Laplacian", path, fs[path].lapvar>>

\* Two URLs ending in the same name: the first image was retained, the
\* second overwrote it and was removed as static.
C10Witness ==
    /\ exit_status = 0
    /\ \E n \in PayloadNames :
          LET path == os_path_join(save_dir, n) IN
          /\ path \notin DOMAIN fs
          /\ \E k1, k2 \in SavedAs(n) :
                /\ k1 < k2
                /\ net[k1 + 1][1] # net[k2 + 1][1]
                /\ stdout[PayloadLines[k1] + 2] = <<"contains content", path>>
                /\ stdout[PayloadLines[k2] + 2] = <<"appears to be static", path>>

====
